---- MODULE Spec2Model ----
(***************************************************************************)
(* Model of main.py of the back-translation utility.                       *)
(*                                                                         *)
(* Two state machines share the module:                                    *)
(*   - main(args): the driver (CLI check, TSV load, optional IMDB cleanup, *)
(*     dispatch to CPU / one GPU / several worker processes with a shared  *)
(*     result queue, count assertion, TSV write), specification Spec and,  *)
(*     with fairness, LiveSpec;                                            *)
(*   - clean_for_imdb(st): the text cleaner, run step by step on inputs    *)
(*     built from a bounded number of string pieces, specification         *)
(*     CleanSpec.                                                          *)
(*                                                                         *)
(* A Python string is a sequence of one-character strings; Python's 0-based*)
(* indices are kept as numbers and converted where a sequence is indexed.  *)
(***************************************************************************)
EXTENDS Integers, Sequences, FiniteSets, TLC

VARIABLES
    pc,                   \* position of the parent process in __main__/main
    gpus,                 \* args.gpus: a list of device indices, <<>> for None
    imdb,                 \* "imdb" in args.data_dir or "IMDB" in args.data_dir
    devcount,             \* torch.cuda.device_count()
    translator,           \* how many texts backtranslate_docs returns per call
    data,                 \* rows of the input file, header row first
    text,                 \* main's list text
    labels,               \* main's tuple labels
    text_splitted,        \* main's list of shards
    procs,                \* started processes: gpu_num, doc and progress
    q,                    \* the shared result queue, oldest result first
    ngot,                 \* results taken from q so far
    njoined,              \* processes joined so far
    back_translated_docs, \* main's list back_translated_docs
    out,                  \* rows of the output file, <<>> while not written
    c_pc,                 \* position inside clean_for_imdb
    c_st                  \* clean_for_imdb's local st

vars == <<pc, gpus, imdb, devcount, translator, data, text, labels,
          text_splitted, procs, q, ngot, njoined, back_translated_docs, out,
          c_pc, c_st>>

mainvars == <<pc, gpus, imdb, devcount, translator, data, text, labels,
              text_splitted, procs, q, ngot, njoined, back_translated_docs, out>>

cleanvars == <<c_pc, c_st>>

(***************************************************************************)
(* Bounds of the model.                                                    *)
(***************************************************************************)
MaxRows == 2        \* data rows of the input file: 0..MaxRows
MaxGpus == 2        \* length of args.gpus: 1..MaxGpus
MaxGpuId == 1       \* device indices on the command line: 0..MaxGpuId
MaxDevices == 2     \* torch.cuda.device_count(): 1..MaxDevices
MaxPieces == 3      \* pieces concatenated into an input of clean_for_imdb

(***************************************************************************)
(* Python list and string primitives.                                      *)
(***************************************************************************)
Min2(a, b) == IF a <= b THEN a ELSE b

SetMin(S) == CHOOSE m \in S : \A x \in S : m <= x

\* s[lo:hi] for 0 <= lo, 0 <= hi: indices past the end are clamped.
Slice(s, lo, hi) ==
    LET l == Min2(lo, Len(s))
        h == Min2(hi, Len(s))
    IN IF l >= h THEN <<>> ELSE SubSeq(s, l + 1, h)

\* s[lo:]
SliceFrom(s, lo) == Slice(s, lo, Len(s))

\* pat occurs in st at 0-based position p
MatchAt(st, pat, p) ==
    /\ p + Len(pat) <= Len(st)
    /\ \A j \in 1..Len(pat) : st[p + j] = pat[j]

\* st.find(pat, start): the lowest position >= start where pat occurs, or -1
Find(st, pat, start) ==
    LET S == {p \in start..(Len(st) - Len(pat)) : MatchAt(st, pat, p)}
    IN IF S = {} THEN -1 ELSE SetMin(S)

\* pat in st
Contains(st, pat) == Find(st, pat, 0) # -1

\* st.replace(pat, rep): non-overlapping occurrences, left to right
RECURSIVE Replace(_, _, _)
Replace(st, pat, rep) ==
    LET p == Find(st, pat, 0)
    IN IF p = -1
       THEN st
       ELSE Slice(st, 0, p) \o rep \o Replace(SliceFrom(st, p + Len(pat)), pat, rep)

\* sum(len(s) for s in lists)
RECURSIVE SumLen(_)
SumLen(lists) ==
    IF lists = <<>> THEN 0 ELSE Len(Head(lists)) + SumLen(Tail(lists))

\* the lists of a list of lists chained in order
RECURSIVE Flatten(_)
Flatten(lists) ==
    IF lists = <<>> THEN <<>> ELSE Head(lists) \o Flatten(Tail(lists))

\* list(zip(a, b)): as many pairs as the shorter list has elements
Zip(a, b) == [i \in 1..Min2(Len(a), Len(b)) |-> <<a[i], b[i]>>]

(***************************************************************************)
(* The string literals of clean_for_imdb.                                  *)
(***************************************************************************)
BR == <<"<", "b", "r", " ", "/", ">">>                  \* "<br />"
QUOT == <<"&", "q", "u", "o", "t", ";">>                \* "&quot;"
PTAG == <<"<", "p", ">">>                               \* "<p>"
A_HREF == <<"<", "a", " ", "h", "r", "e", "f", "=">>    \* "<a href="
GT == <<">">>                                           \* ">"
A_CLOSE == <<"<", "/", "a", ">">>                       \* "</a>"
BACKSLASH_N == <<"\\", "n">>                            \* "\\n"
SPACE == <<" ">>                                        \* " "
DQUOTE == <<"\"">>                                      \* '"'

(***************************************************************************)
(* clean_for_imdb, statement by statement.                                 *)
(***************************************************************************)
\* lines 16-18
CleanHead(st) ==
    Replace(Replace(Replace(st, BR, SPACE), QUOT, DQUOTE), PTAG, SPACE)

\* lines 21-22
StartPos(st) == Find(st, A_HREF, 0)

EndPos(st) == Find(st, GT, StartPos(st))

\* line 24
AnchorCut(st) == Slice(st, 0, StartPos(st)) \o SliceFrom(st, EndPos(st) + 1)

\* line 28 indexes ONE character, st[start_pos + len("<a href=")]; the index
\* is out of range when "<a href=" ends the string
IncompleteIndex(st) == StartPos(st) + Len(A_HREF)

IncompleteRaises(st) == IncompleteIndex(st) >= Len(st)

IncompleteCut(st) == Slice(st, 0, StartPos(st)) \o <<st[IncompleteIndex(st) + 1]>>

\* lines 20-29 run to the end: the string left by the loop, or "IndexError"
RECURSIVE AnchorLoop(_)
AnchorLoop(st) ==
    IF ~Contains(st, A_HREF) THEN [raised |-> FALSE, st |-> st]
    ELSE IF EndPos(st) # -1 THEN AnchorLoop(AnchorCut(st))
    ELSE IF IncompleteRaises(st) THEN [raised |-> TRUE, st |-> st]
    ELSE AnchorLoop(IncompleteCut(st))

\* line 31
CleanAnchorClose(st) == Replace(st, A_CLOSE, <<>>)

\* line 32
CleanTail(st) == Replace(st, BACKSLASH_N, SPACE)

\* the whole function: does the call raise IndexError, and what it returns
CleanRaises(st) ==
    /\ Contains(CleanHead(st), A_HREF)
    /\ AnchorLoop(CleanHead(st)).raised

clean_for_imdb(st) ==
    LET h == CleanHead(st)
    IN IF Contains(h, A_HREF)
       THEN CleanTail(CleanAnchorClose(AnchorLoop(h).st))
       ELSE CleanTail(h)

(***************************************************************************)
(* Inputs of main.                                                         *)
(***************************************************************************)
SeqsUpTo(S, n) == UNION {[1..k -> S] : k \in 0..n}

Header == <<<<"t", "e", "x", "t">>, <<"l", "a", "b", "e", "l">>>>

\* the (text, label) rows a file is made of: a text with markup the cleaner
\* rewrites, and a text that ends in an unclosed "<a href="; the labels differ
RowPool == {<<<<"a">> \o BR, <<"0">>>>, <<<<"b">> \o A_HREF, <<"1">>>>}

DataFiles == {<<Header>> \o rows : rows \in SeqsUpTo(RowPool, MaxRows)}

\* argparse nargs="+": a list of at least one int, or None (modelled <<>>)
GpuLists == UNION {[1..k -> 0..MaxGpuId] : k \in 1..MaxGpus}

TranslatorKinds == {"faithful", "drops", "adds"}

(***************************************************************************)
(* The external translator.  BackTranslator.backtranslate_docs is not part *)
(* of main.py: BT is an injective marker for "the back-translation of t",  *)
(* and the number of texts a call returns is left open (one per text, one  *)
(* too few, one too many).                                                 *)
(***************************************************************************)
BT(t) == <<"~">> \o t

Extra == <<"?">>

Faithful(doc) == [i \in 1..Len(doc) |-> BT(doc[i])]

backtranslate_docs(doc, kind) ==
    CASE kind = "faithful" -> Faithful(doc)
      [] kind = "drops" -> Slice(Faithful(doc), 0, Len(doc) - 1)
      [] kind = "adds" -> Faithful(doc) \o <<Extra>>

\* translate(args, doc, gpu_num): lines 36-59
translate(doc) == backtranslate_docs(doc, translator)

(***************************************************************************)
(* main, lines 67-129, and the __main__ block, lines 216-228.              *)
(***************************************************************************)
GpusIsNone == gpus = <<>>

\* line 82
MultiGpu == ~GpusIsNone /\ Len(gpus) > 1

\* lines 216-219
GpuCountOk(g, n) == g = <<>> \/ Len(g) <= n

\* line 72: text, labels = list(zip(*data[1:]))
ReadText(d) == [i \in 1..(Len(d) - 1) |-> d[i + 1][1]]

ReadLabels(d) == [i \in 1..(Len(d) - 1) |-> d[i + 1][2]]

\* line 84
SplitPoint(txt, g) == Len(txt) \div Len(g)

\* lines 88-90: the shard appended for one gpu_id of args.gpus
ShardFor(txt, g, gpu_id) ==
    Slice(txt, gpu_id * SplitPoint(txt, g), (gpu_id + 1) * SplitPoint(txt, g))
    \o (IF gpu_id = Len(g) - 1
        THEN SliceFrom(txt, (gpu_id + 1) * SplitPoint(txt, g))
        ELSE <<>>)

\* lines 86-90
TextSplitted(txt, g) == [k \in 1..Len(g) |-> ShardFor(txt, g, g[k])]

\* line 91
ShardsAssert(shards, txt) == SumLen(shards) = Len(txt)

\* line 98: Process(target=multi_translate, args=(args, i, text_splitted[i], q))
\* for i = 0, 1, ...; translate then uses cuda:<i> and visible = args.gpus[0]
NewProc(i) ==
    [gpu_num |-> i, visible |-> gpus[1], doc |-> text_splitted[i + 1], st |-> "started"]

\* the drain loop ending one q.get() early
DrainDoneShort(k, n) == k >= n - 1

\* the drain loop making one q.get() more than there are processes
DrainDoneLong(k, n) == k = n + 1

\* line 103: for p in procs ends when one q.get() per process has been made

DrainDone(k, n) == k = n

\* line 110: proc.join() returns once the process has ended
Ended(st) == st \in {"exited", "crashed"}

\* the count check left out
CountsMatchOff(lbls, docs) == TRUE

\* line 119

CountsMatch(lbls, docs) == Len(lbls) = Len(docs)

\* the two columns of a row written the other way round
OutputRowsSwapped(d, docs, lbls) ==
    <<d[1]>> \o [i \in 1..Len(Zip(docs, lbls)) |-> <<Zip(docs, lbls)[i][2], Zip(docs, lbls)[i][1]>>]

\* lines 125-127
OutputRows(d, docs, lbls) ==
    <<d[1]>> \o [i \in 1..Len(Zip(docs, lbls)) |-> <<Zip(docs, lbls)[i][1], Zip(docs, lbls)[i][2]>>]

Init ==
    /\ pc = "cli"
    /\ gpus \in GpuLists \cup {<<>>}
    /\ imdb \in BOOLEAN
    /\ devcount \in 1..MaxDevices
    /\ translator \in TranslatorKinds
    /\ data \in DataFiles
    /\ text = <<>>
    /\ labels = <<>>
    /\ text_splitted = <<>>
    /\ procs = <<>>
    /\ q = <<>>
    /\ ngot = 0
    /\ njoined = 0
    /\ back_translated_docs = <<>>
    /\ out = <<>>
    /\ c_pc = "off"
    /\ c_st = <<>>

\* lines 216-219, then the call of main
CheckGpus ==
    /\ pc = "cli"
    /\ pc' = IF GpuCountOk(gpus, devcount) THEN "read" ELSE "AssertionError_gpus"
    /\ UNCHANGED <<gpus, imdb, devcount, translator, data, text, labels,
                   text_splitted, procs, q, ngot, njoined, back_translated_docs,
                   out, c_pc, c_st>>

\* lines 68-75: unpacking zip(*[]) into two names raises ValueError
ReadData ==
    /\ pc = "read"
    /\ IF Len(data) = 1
       THEN /\ pc' = "ValueError"
            /\ UNCHANGED <<text, labels>>
       ELSE /\ pc' = "clean"
            /\ text' = ReadText(data)
            /\ labels' = ReadLabels(data)
    /\ UNCHANGED <<gpus, imdb, devcount, translator, data, text_splitted, procs,
                   q, ngot, njoined, back_translated_docs, out, c_pc, c_st>>

\* lines 77-80
CleanText ==
    /\ pc = "clean"
    /\ IF ~imdb
       THEN /\ pc' = "dispatch"
            /\ UNCHANGED text
       ELSE IF \E i \in 1..Len(text) : CleanRaises(text[i])
       THEN /\ pc' = "IndexError"
            /\ UNCHANGED text
       ELSE /\ pc' = "dispatch"
            /\ text' = [i \in 1..Len(text) |-> clean_for_imdb(text[i])]
    /\ UNCHANGED <<gpus, imdb, devcount, translator, data, labels, text_splitted,
                   procs, q, ngot, njoined, back_translated_docs, out, c_pc, c_st>>

\* lines 82-94
SplitShards ==
    /\ pc = "dispatch"
    /\ MultiGpu
    /\ text_splitted' = TextSplitted(text, gpus)
    /\ pc' = IF ShardsAssert(text_splitted', text) THEN "spawn" ELSE "AssertionError_shards"
    /\ UNCHANGED <<gpus, imdb, devcount, translator, data, text, labels, procs,
                   q, ngot, njoined, back_translated_docs, out, c_pc, c_st>>

\* lines 96-102, one iteration
StartProc ==
    /\ pc = "spawn"
    /\ procs' = Append(procs, NewProc(Len(procs)))
    /\ pc' = IF Len(procs') = Len(gpus) THEN "get" ELSE "spawn"
    /\ UNCHANGED <<gpus, imdb, devcount, translator, data, text, labels,
                   text_splitted, q, ngot, njoined, back_translated_docs, out,
                   c_pc, c_st>>

\* lines 62-64 in worker k: translate the shard, put the result on the queue
WorkerPut(k) ==
    /\ procs[k].st = "started"
    /\ q' = Append(q, translate(procs[k].doc))
    /\ procs' = [procs EXCEPT ![k].st = "put"]
    /\ UNCHANGED <<pc, gpus, imdb, devcount, translator, data, text, labels,
                   text_splitted, ngot, njoined, back_translated_docs, out,
                   c_pc, c_st>>

\* worker k returns from multi_translate and its process ends
WorkerExit(k) ==
    /\ procs[k].st = "put"
    /\ procs' = [procs EXCEPT ![k].st = "exited"]
    /\ UNCHANGED <<pc, gpus, imdb, devcount, translator, data, text, labels,
                   text_splitted, q, ngot, njoined, back_translated_docs, out,
                   c_pc, c_st>>

\* a worker whose crash handler would still enqueue an (empty) result
WorkerCrashPuts(k) ==
    /\ procs[k].st = "started"
    /\ q' = Append(q, <<>>)
    /\ procs' = [procs EXCEPT ![k].st = "crashed"]
    /\ UNCHANGED <<pc, gpus, imdb, devcount, translator, data, text, labels,
                   text_splitted, ngot, njoined, back_translated_docs, out,
                   c_pc, c_st>>

\* translate raises in worker k (line 63): the process ends, line 64 never runs
WorkerCrash(k) ==
    /\ procs[k].st = "started"
    /\ procs' = [procs EXCEPT ![k].st = "crashed"]
    /\ UNCHANGED <<pc, gpus, imdb, devcount, translator, data, text, labels,
                   text_splitted, q, ngot, njoined, back_translated_docs, out,
                   c_pc, c_st>>

\* lines 103-104, one iteration: q.get() blocks while the queue is empty
GetResult ==
    /\ pc = "get"
    /\ q # <<>>
    /\ back_translated_docs' = back_translated_docs \o Head(q)
    /\ q' = Tail(q)
    /\ ngot' = ngot + 1
    /\ pc' = IF DrainDone(ngot', Len(procs)) THEN "close" ELSE "get"
    /\ UNCHANGED <<gpus, imdb, devcount, translator, data, text, labels,
                   text_splitted, procs, njoined, out, c_pc, c_st>>

\* lines 106-107
CloseQueue ==
    /\ pc = "close"
    /\ pc' = "join"
    /\ UNCHANGED <<gpus, imdb, devcount, translator, data, text, labels,
                   text_splitted, procs, q, ngot, njoined, back_translated_docs,
                   out, c_pc, c_st>>

\* lines 109-110, one iteration
JoinProc ==
    /\ pc = "join"
    /\ Ended(procs[njoined + 1].st)
    /\ njoined' = njoined + 1
    /\ pc' = IF njoined' = Len(procs) THEN "assert" ELSE "join"
    /\ UNCHANGED <<gpus, imdb, devcount, translator, data, text, labels,
                   text_splitted, procs, q, ngot, back_translated_docs, out,
                   c_pc, c_st>>

\* lines 111-118: one GPU or the CPU, translated in the parent
TranslateSingle ==
    /\ pc = "dispatch"
    /\ ~MultiGpu
    /\ back_translated_docs' = translate(text)
    /\ pc' = "assert"
    /\ UNCHANGED <<gpus, imdb, devcount, translator, data, text, labels,
                   text_splitted, procs, q, ngot, njoined, out, c_pc, c_st>>

\* line 119
AssertCount ==
    /\ pc = "assert"
    /\ pc' = IF CountsMatch(labels, back_translated_docs)
             THEN "write" ELSE "AssertionError_count"
    /\ UNCHANGED <<gpus, imdb, devcount, translator, data, text, labels,
                   text_splitted, procs, q, ngot, njoined, back_translated_docs,
                   out, c_pc, c_st>>

\* lines 121-129
WriteOutput ==
    /\ pc = "write"
    /\ out' = OutputRows(data, back_translated_docs, labels)
    /\ pc' = "done"
    /\ UNCHANGED <<gpus, imdb, devcount, translator, data, text, labels,
                   text_splitted, procs, q, ngot, njoined, back_translated_docs,
                   c_pc, c_st>>

Parent ==
    \/ CheckGpus
    \/ ReadData
    \/ CleanText
    \/ SplitShards
    \/ StartProc
    \/ GetResult
    \/ CloseQueue
    \/ JoinProc
    \/ TranslateSingle
    \/ AssertCount
    \/ WriteOutput

Next ==
    \/ Parent
    \/ \E k \in 1..Len(procs) : WorkerPut(k)
    \/ \E k \in 1..Len(procs) : WorkerExit(k)
    \/ \E k \in 1..Len(procs) : WorkerCrash(k)

Spec == Init /\ [][Next]_vars

\* lines 103-129: the parent's steps once its processes are started
Collect ==
    \/ GetResult
    \/ CloseQueue
    \/ JoinProc
    \/ AssertCount
    \/ WriteOutput

\* the parent keeps running while it can, and a worker that has put its
\* result returns; whether a worker gets as far as its put is left open
LiveSpec ==
    /\ Init
    /\ [][Next]_vars
    /\ WF_vars(Collect)
    /\ WF_vars(\E k \in 1..Len(procs) : WorkerExit(k))

(***************************************************************************)
(* clean_for_imdb run on its own, one statement group per step.            *)
(***************************************************************************)
A_HREF_OPEN == <<"<", "a", " ", "h", "r", "e", "f">>    \* "<a href" without "="

\* pieces an input string is concatenated from
Pieces == {A_HREF, A_HREF_OPEN, <<"=">>, GT, <<"x">>, BR, A_CLOSE, BACKSLASH_N, QUOT, PTAG}

CleanInputs == {Flatten(ps) : ps \in SeqsUpTo(Pieces, MaxPieces)}

InitClean ==
    /\ pc = "off"
    /\ gpus = <<>>
    /\ imdb = TRUE
    /\ devcount = 1
    /\ translator = "faithful"
    /\ data = <<Header>>
    /\ text = <<>>
    /\ labels = <<>>
    /\ text_splitted = <<>>
    /\ procs = <<>>
    /\ q = <<>>
    /\ ngot = 0
    /\ njoined = 0
    /\ back_translated_docs = <<>>
    /\ out = <<>>
    /\ c_pc = "call"
    /\ c_st \in CleanInputs

\* lines 16-19
CleanEnter ==
    /\ c_pc = "call"
    /\ c_st' = CleanHead(c_st)
    /\ c_pc' = IF Contains(c_st', A_HREF) THEN "loop" ELSE "tail"
    /\ UNCHANGED mainvars

\* lines 20-24: an anchor with its closing ">"
AnchorRemove ==
    /\ c_pc = "loop"
    /\ Contains(c_st, A_HREF)
    /\ EndPos(c_st) # -1
    /\ c_st' = AnchorCut(c_st)
    /\ UNCHANGED <<c_pc, mainvars>>

\* lines 20-22, 25-29: no ">" after the anchor
AnchorIncomplete ==
    /\ c_pc = "loop"
    /\ Contains(c_st, A_HREF)
    /\ EndPos(c_st) = -1
    /\ IF IncompleteRaises(c_st)
       THEN /\ c_pc' = "IndexError"
            /\ UNCHANGED c_st
       ELSE /\ c_st' = IncompleteCut(c_st)
            /\ UNCHANGED c_pc
    /\ UNCHANGED mainvars

\* line 20 false, line 31
AnchorsDone ==
    /\ c_pc = "loop"
    /\ ~Contains(c_st, A_HREF)
    /\ c_st' = CleanAnchorClose(c_st)
    /\ c_pc' = "tail"
    /\ UNCHANGED mainvars

\* lines 32-33
CleanReturn ==
    /\ c_pc = "tail"
    /\ c_st' = CleanTail(c_st)
    /\ c_pc' = "returned"
    /\ UNCHANGED mainvars

NextClean ==
    \/ CleanEnter
    \/ AnchorRemove
    \/ AnchorIncomplete
    \/ AnchorsDone
    \/ CleanReturn

CleanSpec == InitClean /\ [][NextClean]_vars

(***************************************************************************)
(* Properties of main.                                                     *)
(***************************************************************************)
NumRows == Len(data) - 1

Written == pc = "done"

\* the parent is past the shard assertion of line 91
ShardsAccepted ==
    /\ MultiGpu
    /\ pc \in {"spawn", "get", "close", "join", "assert", "write", "done",
               "AssertionError_count"}

\* the parent is past the drain loop of lines 103-104
PastDrain ==
    /\ MultiGpu
    /\ pc \in {"close", "join", "assert", "write", "done", "AssertionError_count"}

AllStarted == MultiGpu /\ Len(procs) = Len(gpus)

SomeCrashed == \E k \in 1..Len(procs) : procs[k].st = "crashed"

\* every worker has put its result on the queue
AllPut == AllStarted /\ \A k \in 1..Len(procs) : procs[k].st \in {"put", "exited"}

\* the device list is 0, 1, ..., n-1: the one list for which the shards of
\* lines 86-90 are the contiguous partition of the input in order
GpusInOrder == \A k \in 1..Len(gpus) : gpus[k] = k - 1

\* C1: in multi-GPU mode the text of output data row i is the back-translation
\* of the (prepared) text of input data row i, whatever order the workers put
\* their results in.  Stated for the runs where nothing else can go wrong: the
\* device list is 0..n-1 and the translator returns one back-translation per
\* text, so that only the order of the results decides it.
C1_OutputTextPaired ==
    (Written /\ MultiGpu /\ GpusInOrder /\ translator = "faithful")
        => \A i \in 1..NumRows : out[i + 1][1] = BT(text[i])

\* C2: a written output file has as many data rows as the input file, and a
\* run whose collected translations differ in count from the labels is stopped
\* by the assertion of line 119 with nothing written.
C2_RowCountPreserved ==
    /\ out # <<>> => (Written /\ Len(out) - 1 = NumRows)
    /\ Written => out # <<>>
    /\ (pc \in {"write", "done", "AssertionError_count"}
        /\ Len(back_translated_docs) # Len(labels))
           => (pc = "AssertionError_count" /\ out = <<>>)

C2_Witness ==
    /\ Written
    /\ MultiGpu
    /\ NumRows = 2
    /\ Len(out) = 3

\* C3: the label of output data row i is the label of input data row i, in
\* every dispatch mode and for every order of the workers.
C3_LabelsPreserved ==
    Written => /\ Len(out) = Len(data)
               /\ \A i \in 1..NumRows : out[i + 1][2] = data[i + 1][2]

\* two rows with different labels, written after the second worker's result
\* was taken first
C3_Witness ==
    /\ Written
    /\ MultiGpu
    /\ NumRows = 2
    /\ data[2][2] # data[3][2]
    /\ out[2][2] = data[2][2]
    /\ out[3][2] = data[3][2]
    /\ out[2][1] = BT(text[2])

\* C4: the shards main goes on with are one per requested device index and,
\* chained in shard order, give back the input list.
C4_ShardsPartitionInput ==
    ShardsAccepted => /\ Len(text_splitted) = Len(gpus)
                      /\ Flatten(text_splitted) = text

\* C5: the worker handed the k-th shard runs on the k-th requested device.
C5_WorkerOnRequestedDevice ==
    \A k \in 1..Len(procs) : procs[k].gpu_num = gpus[k]

\* C6: once a worker has crashed before its put, the parent never leaves the
\* start and drain loops: it joins no process and writes nothing.
C6_CrashBlocksParent ==
    SomeCrashed => /\ pc \in {"spawn", "get"}
                   /\ ngot < Len(gpus)
                   /\ njoined = 0
                   /\ out = <<>>

\* the parent has taken every other result and is blocked on the empty queue
C6_Witness ==
    /\ SomeCrashed
    /\ pc = "get"
    /\ q = <<>>
    /\ ngot = Len(gpus) - 1
    /\ \A k \in 1..Len(procs) : procs[k].st \in {"crashed", "exited"}

\* C7: the parent takes one result per started process, never more, and has
\* taken all n of them before it joins a process or writes a row.
C7_DrainBeforeJoin ==
    MultiGpu => /\ ngot <= Len(procs)
                /\ (PastDrain \/ njoined > 0 \/ out # <<>>)
                       => (ngot = Len(gpus) /\ Len(procs) = Len(gpus))

\* all results taken, no process joined yet, a worker still running
C7_Witness ==
    /\ MultiGpu
    /\ pc = "join"
    /\ njoined = 0
    /\ ngot = Len(gpus)
    /\ \E k \in 1..Len(procs) : procs[k].st = "put"

\* C8: in multi-GPU mode with a device list that passes the GPU-count check,
\* the shard assertion of line 91 holds.
C8_ShardAssertionHolds ==
    (MultiGpu /\ GpuCountOk(gpus, devcount)) => pc # "AssertionError_shards"

\* the parent has taken all results, joined all processes and ended main
ParentThrough == ngot = Len(gpus) /\ njoined = Len(gpus)

\* the parent waits only for something that can still happen
NoDeadlock ==
    /\ (pc = "get" /\ q = <<>>)
           => \E k \in 1..Len(procs) : procs[k].st \in {"started", "crashed"}
    /\ (pc = "join" /\ ~Ended(procs[njoined + 1].st))
           => procs[njoined + 1].st = "put"

\* C9 as stated: once every worker has put its result, the parent eventually
\* takes all n results, joins every process and writes the output file.
C9_AllPutLeadsToWritten == AllPut ~> (ParentThrough /\ Written)

\* C9 amended: once every worker has put its result, the parent eventually
\* takes all n results and joins every process, and then either writes the
\* output file or, the counts differing, stops at the assertion of line 119;
\* the parent never waits for something that cannot happen unless a worker
\* crashed.
C9_AllPutLeadsToEnd ==
    /\ []NoDeadlock
    /\ AllPut ~> /\ ParentThrough
                 /\ \/ Written
                    \/ /\ pc = "AssertionError_count"
                       /\ Len(back_translated_docs) # Len(labels)

C9_Witness ==
    /\ AllPut
    /\ ParentThrough
    /\ Written
    /\ NumRows = 2

(***************************************************************************)
(* Property of clean_for_imdb.                                             *)
(***************************************************************************)
\* C10: clean_for_imdb raises no error: a call never ends in IndexError.
C10_CleanNeverRaises == c_pc # "IndexError"

====
